---- MODULE Spec2Model ----
(***************************************************************************)
(* A model of label_studio/tasks/functions.py: the organization sweep and  *)
(* its per-organization recompute worker, the annotation and prediction    *)
(* project-reference backfills, and the batched project export.            *)
(*                                                                         *)
(* The database is the set of tables the functions read and write:         *)
(* organizations, projects, tasks, annotations, predictions and the        *)
(* AsyncMigrationStatus ledger.  A job handed to start_job_async_or_sync   *)
(* is a record in `jobs`; it runs one database statement per step, so      *)
(* jobs of an asynchronous queue interleave statement by statement.        *)
(***************************************************************************)
EXTENDS Integers, Sequences, FiniteSets, TLC

(* ----------------------------- bounds ---------------------------------- *)
MaxOrgs == 2
NumProjects == 2
NumTasks == 2
NumRows == 2
MaxCalls == 2
MaxJobs == 2
MaxBatch == 2
MaxFormatLen == 2

(* ------------------------ program constants ---------------------------- *)
SweepJobTimeout == 86400
ExportBatchSize == 1000

NoOrg == 0
NoProject == 0
DefaultTimeout == 0

STATUS_STARTED == "STARTED"
STATUS_FINISHED == "FINISHED"

OrgIds == 1..MaxOrgs
Projects == 1..NumProjects
Tasks == 1..NumTasks
Rows == 1..NumRows
RunNames == {"run-1", "run-2"}

VARIABLES
  orgs,         \* Organization ids present
  projOrg,      \* Project.organization_id (NoOrg: null)
  updatedAt,    \* Project.updated_at
  taskProject,  \* Task.project_id (NoProject: null)
  annTask,      \* Annotation.task_id
  annProject,   \* Annotation.project_id, the denormalized reference
  predTask,     \* Prediction.task_id
  predProject,  \* Prediction.project_id, the denormalized reference
  annProject0,  \* history: Annotation.project_id before any call
  predProject0, \* history: Prediction.project_id before any call
  exportFormats,\* DataExport.get_export_formats: the format names of each project
  batch_size,   \* the batch size of the export cycle
  files,        \* the filesystem: (path, content) of every file
  ex,           \* the call of export_project and its position
  calls,        \* the top-level calls made so far, the last one possibly running
  jobs,         \* every unit of work handed to start_job_async_or_sync
  ledger        \* the AsyncMigrationStatus table, in creation order

staticVars == <<orgs, projOrg, updatedAt, taskProject, annTask, predTask,
                annProject0, predProject0, exportFormats, batch_size>>
exportVars == <<files, ex>>
\* what the sweep, the workers and the backfills never write
dataVars == <<staticVars, exportVars>>
vars == <<orgs, projOrg, updatedAt, taskProject, annTask, annProject,
          predTask, predProject, annProject0, predProject0, exportFormats,
          batch_size, files, ex, calls, jobs, ledger>>

(* ----------------------------- helpers --------------------------------- *)
Max(S) == CHOOSE x \in S : \A y \in S : y <= x

RECURSIVE OrderDesc(_)
OrderDesc(S) == IF S = {} THEN <<>> ELSE <<Max(S)>> \o OrderDesc(S \ {Max(S)})

Perms(S) == {s \in [1..Cardinality(S) -> S] : \A i, j \in DOMAIN s : i # j => s[i] # s[j]}

Last(s) == s[Len(s)]

\* Organization.objects.order_by('-id').values_list('id', flat=True)
OrganizationIds == OrderDesc(orgs)

\* Project.objects.filter(organization_id=org_id).order_by('-updated_at')
RECURSIVE OrderByUpdatedDesc(_)
OrderByUpdatedDesc(S) ==
  IF S = {} THEN <<>>
  ELSE LET p == CHOOSE x \in S : \A y \in S : updatedAt[y] <= updatedAt[x]
       IN <<p>> \o OrderByUpdatedDesc(S \ {p})

\* mutant: the organization filter is lost
ProjectsOfAnyOrg(org_id) == OrderByUpdatedDesc(Projects)

ProjectsOfOrg(org_id) == OrderByUpdatedDesc({p \in Projects : projOrg[p] = org_id})

\* project.tasks.count()
TasksCount(p) == Cardinality({t \in Tasks : taskProject[t] = p})

\* a dict as the set of its (key, value) pairs; {} is the empty meta
MetaGet(m, k) == CHOOSE v \in 0..(NumTasks + NumRows + 1) : <<k, v>> \in m
MetaKeys(m) == {kv[1] : kv \in m}

(* ------------------------------ job runner ----------------------------- *)
\* A unit of work: the function, its arguments, the queue and the timeout
\* it was submitted with, and the position of its execution.
Job(func, arg, from_scratch, name, queue, timeout, c, inline) ==
  [func |-> func, arg |-> arg, from_scratch |-> from_scratch,
   migration_name |-> name, queue_name |-> queue, job_timeout |-> timeout,
   call |-> c, inline |-> inline,
   pc |-> "queued", todo |-> <<>>, cur |-> 0, count |-> 0]

\* start_job_async_or_sync: with a queue backend the work is enqueued and the
\* caller goes on; without it the work runs on the caller's thread.
StartJobAsyncOrSync(func, arg, from_scratch, name, queue, timeout, c) ==
  Job(func, arg, from_scratch, name, queue, timeout, c, ~calls[c].redis)

CallerAfterSubmit(c) == IF calls[c].redis THEN "running" ELSE "blocked"

\* the jobs that write the ledger, which MaxJobs bounds
LedgerJobs == {j \in DOMAIN jobs : jobs[j].func # "_fill_annotations_project"}

CallerFree == IF calls = <<>> THEN TRUE ELSE Last(calls).status \in {"returned", "raised"}

NewCall(op, from_scratch, name, redis, todo) ==
  [op |-> op, from_scratch |-> from_scratch, name |-> name, redis |-> redis,
   todo |-> todo, status |-> "running"]

(* ------------------------ calculate_stats_all_orgs --------------------- *)
CallSweep(from_scratch, redis, name) ==
  /\ CallerFree
  /\ Len(calls) < MaxCalls
  /\ Cardinality(LedgerJobs) + Cardinality(orgs) <= MaxJobs
  /\ calls' = Append(calls, NewCall("calculate_stats_all_orgs", from_scratch, name,
                                    redis, OrganizationIds))
  /\ UNCHANGED <<dataVars, annProject, predProject, jobs, ledger>>

\* mutant: migration_name is not passed on, the worker uses its default
SweepJobDefaultName(c, org_id) ==
  StartJobAsyncOrSync("redis_job_for_calculation", org_id, calls[c].from_scratch,
                      "0018_manual_migrate_counters", "critical", SweepJobTimeout, c)

\* mutant: redis=redis is not passed on, the work is queued whatever the caller asked
SweepJobQueued(c, org_id) ==
  Job("redis_job_for_calculation", org_id, calls[c].from_scratch,
      calls[c].name, "critical", SweepJobTimeout, c, FALSE)

SweepJob(c, org_id) ==
  StartJobAsyncOrSync("redis_job_for_calculation", org_id, calls[c].from_scratch,
                      calls[c].name, "critical", SweepJobTimeout, c)

SweepSubmit ==
  /\ calls # <<>>
  /\ LET c == Len(calls) IN
     /\ calls[c].op = "calculate_stats_all_orgs"
     /\ calls[c].status = "running"
     /\ calls[c].todo # <<>>
     /\ jobs' = Append(jobs, SweepJob(c, Head(calls[c].todo)))
     /\ calls' = [calls EXCEPT ![c].todo = Tail(@), ![c].status = CallerAfterSubmit(c)]
  /\ UNCHANGED <<dataVars, annProject, predProject, ledger>>

\* the dispatcher's loop is over: the call returns
CallReturn ==
  /\ calls # <<>>
  /\ LET c == Len(calls) IN
     /\ calls[c].status = "running"
     /\ calls[c].todo = <<>>
     /\ calls' = [calls EXCEPT ![c].status = "returned"]
  /\ UNCHANGED <<dataVars, annProject, predProject, jobs, ledger>>

\* synchronous fallback: the inline job is over and the caller goes on, or the
\* job's exception reaches the caller
InlineJob(c) == CHOOSE j \in DOMAIN jobs :
                  /\ jobs[j].call = c
                  /\ \A k \in DOMAIN jobs : jobs[k].call = c => k <= j

InlineDone ==
  /\ calls # <<>>
  /\ LET c == Len(calls) IN
     /\ calls[c].status = "blocked"
     /\ jobs[InlineJob(c)].pc \in {"done", "failed"}
     /\ calls' = [calls EXCEPT ![c].status =
                    IF jobs[InlineJob(c)].pc = "done" THEN "running" ELSE "raised"]
  /\ UNCHANGED <<dataVars, annProject, predProject, jobs, ledger>>

(* ----------------------- redis_job_for_calculation --------------------- *)
NewRecord(project, name, j) ==
  [project |-> project, name |-> name, status |-> STATUS_STARTED, meta |-> {},
   creator |-> j, saves |-> 0]

AfterProject(job) ==
  [job EXCEPT !.todo = Tail(@), !.cur = 0, !.count = 0,
              !.pc = IF Tail(job.todo) = <<>> THEN "done" ELSE "create"]

RecomputeStart(j) ==
  /\ jobs[j].func = "redis_job_for_calculation"
  /\ jobs[j].pc = "queued"
  /\ LET projects == ProjectsOfOrg(jobs[j].arg) IN
     jobs' = [jobs EXCEPT ![j].todo = projects,
                          ![j].pc = IF projects = <<>> THEN "done" ELSE "create"]
  /\ UNCHANGED <<dataVars, annProject, predProject, calls, ledger>>

\* mutant: the record is created once, before the loop, and used for every project
RecomputeCreateOnce(j) ==
  /\ jobs[j].func = "redis_job_for_calculation"
  /\ jobs[j].pc = "create"
  /\ IF \E i \in DOMAIN ledger : ledger[i].creator = j
     THEN /\ ledger' = ledger
          /\ jobs' = [jobs EXCEPT ![j].pc = "recompute",
                 ![j].cur = CHOOSE i \in DOMAIN ledger : ledger[i].creator = j]
     ELSE /\ ledger' = Append(ledger, [project |-> Head(jobs[j].todo),
                 name |-> jobs[j].migration_name, status |-> STATUS_STARTED,
                 meta |-> {}, creator |-> j, saves |-> 0])
          /\ jobs' = [jobs EXCEPT ![j].cur = Len(ledger) + 1, ![j].pc = "recompute"]
  /\ UNCHANGED <<dataVars, annProject, predProject, calls>>

\* mutant: get_or_create on (project, name): an execution takes the record
\* another execution made for the same project and run name
RecomputeGetOrCreate(j) ==
  /\ jobs[j].func = "redis_job_for_calculation"
  /\ jobs[j].pc = "create"
  /\ LET same == {i \in DOMAIN ledger : /\ ledger[i].project = Head(jobs[j].todo)
                                        /\ ledger[i].name = jobs[j].migration_name
                                        /\ ledger[i].status = STATUS_STARTED}
     IN IF same = {}
        THEN /\ ledger' = Append(ledger, [project |-> Head(jobs[j].todo),
                     name |-> jobs[j].migration_name, status |-> STATUS_STARTED,
                     meta |-> {}, creator |-> j, saves |-> 0])
             /\ jobs' = [jobs EXCEPT ![j].cur = Len(ledger) + 1, ![j].pc = "recompute"]
        ELSE /\ ledger' = ledger
             /\ jobs' = [jobs EXCEPT ![j].cur = CHOOSE i \in same : TRUE,
                                     ![j].pc = "recompute"]
  /\ UNCHANGED <<dataVars, annProject, predProject, calls>>

RecomputeCreate(j) ==
  /\ jobs[j].func = "redis_job_for_calculation"
  /\ jobs[j].pc = "create"
  /\ ledger' = Append(ledger, NewRecord(Head(jobs[j].todo), jobs[j].migration_name, j))
  /\ jobs' = [jobs EXCEPT ![j].cur = Len(ledger) + 1, ![j].pc = "recompute"]
  /\ UNCHANGED <<dataVars, annProject, predProject, calls>>

\* project.update_tasks_counters(project.tasks.all(), from_scratch): the number
\* of tasks processed, every task from scratch, otherwise those not yet calculated
UpdateTasksCounters(p, from_scratch) ==
  IF from_scratch THEN {TasksCount(p)} ELSE 0..TasksCount(p)

\* mutant: the recomputation is started in the background and the loop goes on
\* to the next project before the record is finished
RecomputeRunInBackground(j) ==
  /\ jobs[j].func = "redis_job_for_calculation"
  /\ jobs[j].pc = "recompute"
  /\ jobs' = [jobs EXCEPT ![j] = AfterProject(@)]
  /\ UNCHANGED <<dataVars, annProject, predProject, calls, ledger>>

RecomputeRun(j) ==
  /\ jobs[j].func = "redis_job_for_calculation"
  /\ jobs[j].pc = "recompute"
  /\ \E task_count \in UpdateTasksCounters(Head(jobs[j].todo), jobs[j].from_scratch) :
       jobs' = [jobs EXCEPT ![j].count = task_count, ![j].pc = "finish"]
  /\ UNCHANGED <<dataVars, annProject, predProject, calls, ledger>>

\* mutant: the exception is caught and the loop goes on with the next project
RecomputeRaiseContinue(j) ==
  /\ jobs[j].func = "redis_job_for_calculation"
  /\ jobs[j].pc = "recompute"
  /\ jobs' = [jobs EXCEPT ![j] = AfterProject(@)]
  /\ UNCHANGED <<dataVars, annProject, predProject, calls, ledger>>

\* mutant: the exception is caught and the record is marked as failed
RecomputeRaiseMarked(j) ==
  /\ jobs[j].func = "redis_job_for_calculation"
  /\ jobs[j].pc = "recompute"
  /\ jobs' = [jobs EXCEPT ![j].pc = "failed"]
  /\ ledger' = [ledger EXCEPT ![jobs[j].cur].status = "FAILED", ![jobs[j].cur].saves = @ + 1]
  /\ UNCHANGED <<dataVars, annProject, predProject, calls>>

\* update_tasks_counters raises: nothing catches it, the job ends there
RecomputeRaise(j) ==
  /\ jobs[j].func = "redis_job_for_calculation"
  /\ jobs[j].pc = "recompute"
  /\ jobs' = [jobs EXCEPT ![j].pc = "failed"]
  /\ UNCHANGED <<dataVars, annProject, predProject, calls, ledger>>

\* mutant: the two counts are stored under each other's key
RecomputeMetaSwapped(task_count, p) ==
  {<<"tasks_processed", TasksCount(p)>>, <<"total_project_tasks", task_count>>}

RecomputeMeta(task_count, p) ==
  {<<"tasks_processed", task_count>>, <<"total_project_tasks", TasksCount(p)>>}

\* mutant: the status assignment is missing, only the meta is saved
SaveMetaOnly(rec, meta) ==
  [rec EXCEPT !.meta = meta, !.saves = @ + 1]

SaveFinished(rec, meta) ==
  [rec EXCEPT !.status = STATUS_FINISHED, !.meta = meta, !.saves = @ + 1]

RecomputeFinish(j) ==
  /\ jobs[j].func = "redis_job_for_calculation"
  /\ jobs[j].pc = "finish"
  /\ ledger' = [ledger EXCEPT ![jobs[j].cur] =
                  SaveFinished(@, RecomputeMeta(jobs[j].count, Head(jobs[j].todo)))]
  /\ jobs' = [jobs EXCEPT ![j] = AfterProject(@)]
  /\ UNCHANGED <<dataVars, annProject, predProject, calls>>

(* ------------------------- _fill_annotations_project ------------------- *)
\* mutant: the filter reads the denormalized column, not the task's project
AnnotationsWithProjectRef(project_id) ==
  {a \in Rows : annProject[a] = project_id}

\* Annotation.objects.filter(task__project_id=project_id)
AnnotationsOfProject(project_id) ==
  {a \in Rows : taskProject[annTask[a]] = project_id}

\* mutant: the update is not filtered, every annotation gets the project
FillAnnotationsUnfiltered(project_id) ==
  [a \in Rows |-> project_id]

\* .update(project_id=project_id): every row of the filter is written
FillAnnotationsProject(project_id) ==
  [a \in Rows |-> IF a \in AnnotationsOfProject(project_id)
                  THEN project_id ELSE annProject[a]]

AnnRun(j) ==
  /\ jobs[j].func = "_fill_annotations_project"
  /\ jobs[j].pc = "queued"
  /\ annProject' = FillAnnotationsProject(jobs[j].arg)
  /\ jobs' = [jobs EXCEPT ![j].pc = "done"]
  /\ UNCHANGED <<dataVars, predProject, calls, ledger>>

(* -------------------------- fill_annotations_project ------------------- *)
\* Project.objects.all().values_list('id', flat=True): no order is asked for
AllProjectIds == Perms(Projects)

CallFillAnnotations(redis) ==
  /\ CallerFree
  /\ Len(calls) < MaxCalls
  /\ \E project_ids \in AllProjectIds :
       calls' = Append(calls, NewCall("fill_annotations_project", FALSE, "", redis,
                                      project_ids))
  /\ UNCHANGED <<dataVars, annProject, predProject, jobs, ledger>>

\* mutant: the job is submitted the way the sweep submits its workers
AnnJobLikeSweep(c, project_id) ==
  StartJobAsyncOrSync("_fill_annotations_project", project_id, FALSE, "",
                      "critical", SweepJobTimeout, c)

AnnJob(c, project_id) ==
  StartJobAsyncOrSync("_fill_annotations_project", project_id, FALSE, "",
                      "default", DefaultTimeout, c)

AnnSubmit ==
  /\ calls # <<>>
  /\ LET c == Len(calls) IN
     /\ calls[c].op = "fill_annotations_project"
     /\ calls[c].status = "running"
     /\ calls[c].todo # <<>>
     /\ jobs' = Append(jobs, AnnJob(c, Head(calls[c].todo)))
     /\ calls' = [calls EXCEPT ![c].todo = Tail(@), ![c].status = CallerAfterSubmit(c)]
  /\ UNCHANGED <<dataVars, annProject, predProject, ledger>>

(* ------------------------- _fill_predictions_project ------------------- *)
\* Prediction.objects.filter(task__project_id=project_id)
PredictionsOfProject(project_id) ==
  {r \in Rows : taskProject[predTask[r]] = project_id}

\* mutant: only the rows whose value changes are counted
UpdatedCountChanged(project_id) ==
  Cardinality({r \in PredictionsOfProject(project_id) : predProject[r] # project_id})

\* .update(project_id=project_id) returns the number of rows of the filter
UpdatedCount(project_id) == Cardinality(PredictionsOfProject(project_id))

\* mutant: the update matches its rows and writes none of them
FillPredictionsSkipped(project_id) == predProject

FillPredictionsProject(project_id) ==
  [r \in Rows |-> IF r \in PredictionsOfProject(project_id)
                  THEN project_id ELSE predProject[r]]

\* Prediction.objects.filter(project_id=project_id).count()
TotalProjectPredictions(project_id) ==
  Cardinality({r \in Rows : predProject[r] = project_id})

PredictionsMeta(updated_count, project_id) ==
  {<<"predictions_processed", updated_count>>,
   <<"total_project_predictions", TotalProjectPredictions(project_id)>>}

PredStart(j) ==
  /\ jobs[j].func = "_fill_predictions_project"
  /\ jobs[j].pc = "queued"
  /\ \E project_ids \in AllProjectIds :
       jobs' = [jobs EXCEPT ![j].todo = project_ids, ![j].pc = "create"]
  /\ UNCHANGED <<dataVars, annProject, predProject, calls, ledger>>

\* mutant: get_or_create on (project, name): a rerun takes the record of the
\* earlier run
PredGetOrCreate(j) ==
  /\ jobs[j].func = "_fill_predictions_project"
  /\ jobs[j].pc = "create"
  /\ LET same == {i \in DOMAIN ledger : /\ ledger[i].project = Head(jobs[j].todo)
                                        /\ ledger[i].name = jobs[j].migration_name}
     IN IF same = {}
        THEN /\ ledger' = Append(ledger, [project |-> Head(jobs[j].todo),
                     name |-> jobs[j].migration_name, status |-> STATUS_STARTED,
                     meta |-> {}, creator |-> j, saves |-> 0])
             /\ jobs' = [jobs EXCEPT ![j].cur = Len(ledger) + 1, ![j].pc = "update"]
        ELSE /\ ledger' = ledger
             /\ jobs' = [jobs EXCEPT ![j].cur = CHOOSE i \in same : TRUE,
                                     ![j].pc = "update"]
  /\ UNCHANGED <<dataVars, annProject, predProject, calls>>

PredCreate(j) ==
  /\ jobs[j].func = "_fill_predictions_project"
  /\ jobs[j].pc = "create"
  /\ ledger' = Append(ledger, NewRecord(Head(jobs[j].todo), jobs[j].migration_name, j))
  /\ jobs' = [jobs EXCEPT ![j].cur = Len(ledger) + 1, ![j].pc = "update"]
  /\ UNCHANGED <<dataVars, annProject, predProject, calls>>

PredUpdate(j) ==
  /\ jobs[j].func = "_fill_predictions_project"
  /\ jobs[j].pc = "update"
  /\ predProject' = FillPredictionsProject(Head(jobs[j].todo))
  /\ jobs' = [jobs EXCEPT ![j].count = UpdatedCount(Head(jobs[j].todo)),
                          ![j].pc = "finish"]
  /\ UNCHANGED <<dataVars, annProject, calls, ledger>>

PredFinish(j) ==
  /\ jobs[j].func = "_fill_predictions_project"
  /\ jobs[j].pc = "finish"
  /\ ledger' = [ledger EXCEPT ![jobs[j].cur] =
                  SaveFinished(@, PredictionsMeta(jobs[j].count, Head(jobs[j].todo)))]
  /\ jobs' = [jobs EXCEPT ![j] = AfterProject(@)]
  /\ UNCHANGED <<dataVars, annProject, predProject, calls>>

(* -------------------------- fill_predictions_project ------------------- *)
\* mutant: the dispatcher loops over the projects and submits the job for each
CallFillPredictionsPerProject(redis, name) ==
  /\ CallerFree
  /\ Len(calls) < MaxCalls
  /\ Cardinality(LedgerJobs) + 1 <= MaxJobs
  /\ \E project_ids \in AllProjectIds :
       calls' = Append(calls, NewCall("fill_predictions_project", FALSE, name, redis,
                                      project_ids))
  /\ UNCHANGED <<dataVars, annProject, predProject, jobs, ledger>>

CallFillPredictions(redis, name) ==
  /\ CallerFree
  /\ Len(calls) < MaxCalls
  /\ Cardinality(LedgerJobs) + 1 <= MaxJobs
  /\ calls' = Append(calls, NewCall("fill_predictions_project", FALSE, name, redis,
                                    <<NoProject>>))
  /\ UNCHANGED <<dataVars, annProject, predProject, jobs, ledger>>

PredJob(c) ==
  StartJobAsyncOrSync("_fill_predictions_project", NoProject, FALSE, calls[c].name,
                      "default", DefaultTimeout, c)

PredSubmit ==
  /\ calls # <<>>
  /\ LET c == Len(calls) IN
     /\ calls[c].op = "fill_predictions_project"
     /\ calls[c].status = "running"
     /\ calls[c].todo # <<>>
     /\ jobs' = Append(jobs, PredJob(c))
     /\ calls' = [calls EXCEPT ![c].todo = Tail(@), ![c].status = CallerAfterSubmit(c)]
  /\ UNCHANGED <<dataVars, annProject, predProject, ledger>>

(* ----------------------------- export_project -------------------------- *)
\* a format is a string, a sequence of the characters "j" and "J"
Chars == {"j", "J"}
Words == UNION {[1..n -> Chars] : n \in 1..MaxFormatLen}

\* str.upper
UpperChar(ch) == IF ch = "j" THEN "J" ELSE ch
Upper(str) == [i \in DOMAIN str |-> UpperChar(str[i])]

\* the names a format catalog can hold
FormatNames == {w \in Words : Upper(w) = w}

\* [s['name'] for s in DataExport.get_export_formats(project)]
SupportedFormats(project) == exportFormats[project]

\* mutant: the format is looked up as given, upper() is forgotten
FormatSupportedAsGiven(project, export_format) ==
  export_format \in SupportedFormats(project)

\* export_format.upper() in supported_formats
FormatSupported(project, export_format) ==
  Upper(export_format) \in SupportedFormats(project)

BatchSizes == (1..MaxBatch) \cup {ExportBatchSize}
\* a path is the sequence of its components
Dirs == {<<"dir">>}
PathInputs == {<<"dir">>, <<"file">>}
ContextInputs == {"absent", "json", "badjson"}
NoStream == [project |-> NoProject, format |-> <<>>, tasks |-> <<>>]
NoFiles == {}
OldFile == {<<(<<"file">>), NoStream>>}

Min(a, b) == IF a <= b THEN a ELSE b

RECURSIVE OrderAsc(_)
OrderAsc(S) ==
  IF S = {} THEN <<>>
  ELSE LET x == CHOOSE y \in S : \A z \in S : y <= z
       IN <<x>> \o OrderAsc(S \ {x})

\* Task.objects.filter(project=project)
TasksOfProject(project) == OrderAsc({t \in Tasks : taskProject[t] = project})

\* core.utils.common.batch: the slice of n items that starts after ndx
Batch(iterable, n, ndx) == SubSeq(iterable, ndx + 1, Min(ndx + n, Len(iterable)))

\* ExportDataSerializer(_task_ids, many=True).data: one record for each task
Serialize(task_ids) == [i \in DOMAIN task_ids |-> [id |-> task_ids[i]]]

\* mutant: the batch replaces what was accumulated (= for +=)
ExportAssign(tasks, data) == data

\* tasks += data
ExportAccumulate(tasks, data) == tasks \o data

\* DataExport.generate_export_file: the stream and the file name it suggests
ExportStream(project, tasks, export_format) ==
  [project |-> project, format |-> export_format, tasks |-> tasks]
ExportFilename(project, export_format) == <<"project", project, export_format>>

\* mutant: the file name is joined to the path whether it is a directory or not
ExportFilepathJoined(path, filename) == path \o <<filename>>

\* os.path.join(path, filename) if os.path.isdir(path) else path
ExportFilepath(path, filename) ==
  IF path \in Dirs THEN path \o <<filename>> ELSE path

\* open(filepath, 'wb') and write: the file is created or replaced
WriteFile(fs, filepath, content) ==
  {f \in fs : f[1] # filepath} \cup {<<filepath, content>>}

ExIdle ==
  [pc |-> "idle", project_id |-> NoProject, export_format |-> <<>>, path |-> <<>>,
   context |-> "absent", error |-> "", reads |-> 0, loaded |-> <<>>, ndx |-> 0,
   tasks |-> <<>>, fed |-> <<>>, stream |-> NoStream, filename |-> <<>>,
   result |-> <<>>, files0 |-> {}]

ExportRaise(error) == ex' = [ex EXCEPT !.pc = "raised", !.error = error]

ExportOthers == <<staticVars, annProject, predProject, calls, jobs, ledger>>

ExportCall(project_id, export_format, path, context) ==
  /\ ex.pc = "idle"
  /\ ex' = [ex EXCEPT !.pc = "get", !.project_id = project_id,
                      !.export_format = export_format, !.path = path,
                      !.context = context, !.files0 = files]
  /\ UNCHANGED <<files, ExportOthers>>

\* Project.objects.get(id=project_id)
ExportGet ==
  /\ ex.pc = "get"
  /\ IF ex.project_id \in Projects
     THEN ex' = [ex EXCEPT !.pc = "validate"]
     ELSE ExportRaise("NotFound")
  /\ UNCHANGED <<files, ExportOthers>>

ExportValidate ==
  /\ ex.pc = "validate"
  /\ IF FormatSupported(ex.project_id, ex.export_format)
     THEN ex' = [ex EXCEPT !.pc = "count", !.export_format = Upper(@)]
     ELSE ExportRaise("InvalidFormat")
  /\ UNCHANGED <<files, ExportOthers>>

\* task_ids.count() for the log line: the first query on the tasks
ExportCount ==
  /\ ex.pc = "count"
  /\ ex' = [ex EXCEPT !.pc = "context", !.reads = @ + 1]
  /\ UNCHANGED <<files, ExportOthers>>

\* json.loads(serializer_context) when it is a string
ExportContext ==
  /\ ex.pc = "context"
  /\ IF ex.context = "badjson"
     THEN ExportRaise("JSONDecodeError")
     ELSE ex' = [ex EXCEPT !.pc = "load"]
  /\ UNCHANGED <<files, ExportOthers>>

\* batch() takes the length of the queryset, which loads it
ExportLoad ==
  /\ ex.pc = "load"
  /\ ex' = [ex EXCEPT !.pc = "batch", !.reads = @ + 1,
                      !.loaded = TasksOfProject(ex.project_id),
                      !.tasks = <<>>, !.ndx = 0]
  /\ UNCHANGED <<files, ExportOthers>>

\* one turn of the export cycle
ExportBatch ==
  /\ ex.pc = "batch"
  /\ ex.ndx < Len(ex.loaded)
  /\ ex' = [ex EXCEPT
              !.tasks = ExportAccumulate(@, Serialize(Batch(ex.loaded, batch_size, ex.ndx))),
              !.ndx = @ + batch_size]
  /\ UNCHANGED <<files, ExportOthers>>

ExportConvert ==
  /\ ex.pc = "batch"
  /\ ex.ndx >= Len(ex.loaded)
  /\ ex' = [ex EXCEPT !.pc = "write", !.fed = ex.tasks,
              !.stream = ExportStream(ex.project_id, ex.tasks, ex.export_format),
              !.filename = ExportFilename(ex.project_id, ex.export_format)]
  /\ UNCHANGED <<files, ExportOthers>>

ExportWrite ==
  /\ ex.pc = "write"
  /\ LET filepath == ExportFilepath(ex.path, ex.filename) IN
     /\ files' = WriteFile(files, filepath, ex.stream)
     /\ ex' = [ex EXCEPT !.pc = "returned", !.result = filepath]
  /\ UNCHANGED ExportOthers

(* --------------------------- specifications ---------------------------- *)
NullRefs == [r \in Rows |-> NoProject]

\* row r hangs on task r (wrapping around)
RowTask == [r \in Rows |-> ((r - 1) % NumTasks) + 1]

\* tasks in creation order, project by project: every vector of task counts
TaskLayouts ==
  {f \in [Tasks -> Projects \cup {NoProject}] :
     \A t, u \in Tasks : t <= u => f[t] <= f[u]}

\* no export is under way; the code's batch size and a full format catalog
InitNoExport ==
  /\ exportFormats = [p \in Projects |-> FormatNames]
  /\ batch_size = ExportBatchSize
  /\ files = NoFiles
  /\ ex = ExIdle

InitRun ==
  /\ calls = <<>>
  /\ jobs = <<>>
  /\ ledger = <<>>

\* the sweep and its workers, over every layout of organizations, projects and
\* task counts
Init ==
  /\ orgs \in SUBSET OrgIds
  /\ projOrg \in [Projects -> orgs \cup {NoOrg}]
  /\ updatedAt \in Perms(Projects)
  /\ taskProject \in TaskLayouts
  /\ annTask = RowTask
  /\ predTask = RowTask
  /\ annProject = NullRefs
  /\ predProject = NullRefs
  /\ annProject0 = annProject
  /\ predProject0 = predProject
  /\ InitNoExport
  /\ InitRun

Next ==
  \/ \E from_scratch \in BOOLEAN, redis \in BOOLEAN, name \in RunNames :
       CallSweep(from_scratch, redis, name)
  \/ SweepSubmit
  \/ CallReturn
  \/ InlineDone
  \/ \E j \in DOMAIN jobs : RecomputeStart(j)
  \/ \E j \in DOMAIN jobs : RecomputeCreate(j)
  \/ \E j \in DOMAIN jobs : RecomputeRun(j)
  \/ \E j \in DOMAIN jobs : RecomputeRaise(j)
  \/ \E j \in DOMAIN jobs : RecomputeFinish(j)

Spec == Init /\ [][Next]_vars

(* The two writers of the ledger together: sweeps with their workers and the   *)
(* prediction backfill, on a database whose denormalized columns were just     *)
(* added and where task t belongs to project t (wrapping around).              *)
TaskOfEachProject == [t \in Tasks |-> ((t - 1) % NumProjects) + 1]

InitLedger ==
  /\ orgs \in SUBSET OrgIds
  /\ projOrg \in [Projects -> orgs \cup {NoOrg}]
  /\ updatedAt \in Perms(Projects)
  /\ taskProject = TaskOfEachProject
  /\ annTask = RowTask
  /\ predTask = RowTask
  /\ annProject = NullRefs
  /\ predProject = NullRefs
  /\ annProject0 = annProject
  /\ predProject0 = predProject
  /\ InitNoExport
  /\ InitRun

NextLedger ==
  \/ \E from_scratch \in BOOLEAN, redis \in BOOLEAN, name \in RunNames :
       CallSweep(from_scratch, redis, name)
  \/ SweepSubmit
  \/ \E redis \in BOOLEAN, name \in RunNames : CallFillPredictions(redis, name)
  \/ PredSubmit
  \/ CallReturn
  \/ InlineDone
  \/ \E j \in DOMAIN jobs : RecomputeStart(j)
  \/ \E j \in DOMAIN jobs : RecomputeCreate(j)
  \/ \E j \in DOMAIN jobs : RecomputeRun(j)
  \/ \E j \in DOMAIN jobs : RecomputeRaise(j)
  \/ \E j \in DOMAIN jobs : RecomputeFinish(j)
  \/ \E j \in DOMAIN jobs : PredStart(j)
  \/ \E j \in DOMAIN jobs : PredCreate(j)
  \/ \E j \in DOMAIN jobs : PredUpdate(j)
  \/ \E j \in DOMAIN jobs : PredFinish(j)

SpecLedger == InitLedger /\ [][NextLedger]_vars

(* The two backfills, from every state of the denormalized columns: row r of   *)
(* either table hangs on task r (wrapping around), tasks are in any project or *)
(* none, and the project references of the rows are arbitrary.                 *)
InitBackfill ==
  /\ orgs = OrgIds
  /\ projOrg = [p \in Projects |-> Max(OrgIds)]
  /\ updatedAt = [p \in Projects |-> p]
  /\ taskProject \in [Tasks -> Projects \cup {NoProject}]
  /\ annTask = RowTask
  /\ predTask = RowTask
  /\ annProject \in [Rows -> Projects \cup {NoProject}]
  /\ predProject = annProject
  /\ annProject0 = annProject
  /\ predProject0 = predProject
  /\ InitNoExport
  /\ InitRun

NextBackfill ==
  \/ \E redis \in BOOLEAN : CallFillAnnotations(redis)
  \/ AnnSubmit
  \/ \E redis \in BOOLEAN, name \in RunNames : CallFillPredictions(redis, name)
  \/ PredSubmit
  \/ CallReturn
  \/ InlineDone
  \/ \E j \in DOMAIN jobs : AnnRun(j)
  \/ \E j \in DOMAIN jobs : PredStart(j)
  \/ \E j \in DOMAIN jobs : PredCreate(j)
  \/ \E j \in DOMAIN jobs : PredUpdate(j)
  \/ \E j \in DOMAIN jobs : PredFinish(j)

SpecBackfill == InitBackfill /\ [][NextBackfill]_vars

(* export_project, called once on any project id, format, path and serializer  *)
(* context, for every task layout, format catalog and batch size.              *)
InitExport ==
  /\ orgs = OrgIds
  /\ projOrg = [p \in Projects |-> Max(OrgIds)]
  /\ updatedAt = [p \in Projects |-> p]
  /\ taskProject \in TaskLayouts
  /\ annTask = RowTask
  /\ predTask = RowTask
  /\ annProject = [r \in Rows |-> taskProject[RowTask[r]]]
  /\ predProject = annProject
  /\ annProject0 = annProject
  /\ predProject0 = predProject
  /\ exportFormats \in [Projects -> SUBSET FormatNames]
  /\ batch_size \in BatchSizes
  /\ files \in {NoFiles, OldFile}
  /\ ex = ExIdle
  /\ InitRun

NextExport ==
  \/ \E project_id \in Projects \cup {NumProjects + 1}, export_format \in Words,
        path \in PathInputs, context \in ContextInputs :
       ExportCall(project_id, export_format, path, context)
  \/ ExportGet
  \/ ExportValidate
  \/ ExportCount
  \/ ExportContext
  \/ ExportLoad
  \/ ExportBatch
  \/ ExportConvert
  \/ ExportWrite

SpecExport == InitExport /\ [][NextExport]_vars

(* ------------------------------- claims -------------------------------- *)
JobsOfCall(c) == {j \in DOMAIN jobs : jobs[j].call = c}
SweepCalls == {c \in DOMAIN calls : calls[c].op = "calculate_stats_all_orgs"}
RecomputeJobs == {j \in DOMAIN jobs : jobs[j].func = "redis_job_for_calculation"}
RecordsNamed(name) == {i \in DOMAIN ledger : ledger[i].name = name}
RecordsBy(j) == {i \in DOMAIN ledger : ledger[i].creator = j}
OwnedProjects == {p \in Projects : projOrg[p] \in orgs}

\* the jobs of call c in submission order
RECURSIVE SeqOfJobs(_)
SeqOfJobs(S) ==
  IF S = {} THEN <<>>
  ELSE LET j == CHOOSE x \in S : \A y \in S : x <= y
       IN <<jobs[j]>> \o SeqOfJobs(S \ {j})

\* C1: one sweep submits one unit of work per organization, none skipped, none
\* twice: at every moment the submissions of a sweep are the first organizations
\* in descending-id order, each carrying the organization's id, the caller's
\* from_scratch flag and run name, on queue 'critical' with a 24 hour timeout;
\* and a sweep that has returned has submitted all of them.
C1_SweepSubmitsOncePerOrg ==
  \A c \in SweepCalls :
    LET subs == SeqOfJobs(JobsOfCall(c)) IN
    /\ Len(subs) <= Len(OrderDesc(orgs))
    /\ \A k \in DOMAIN subs :
         /\ subs[k].func = "redis_job_for_calculation"
         /\ subs[k].arg = OrderDesc(orgs)[k]
         /\ subs[k].from_scratch = calls[c].from_scratch
         /\ subs[k].migration_name = calls[c].name
         /\ subs[k].queue_name = "critical"
         /\ subs[k].job_timeout = 24 * 3600
    /\ calls[c].status = "returned" =>
         /\ Len(subs) = Cardinality(orgs)
         /\ \A o \in orgs : Cardinality({k \in DOMAIN subs : subs[k].arg = o}) = 1

C1_Witness ==
  \E c \in SweepCalls :
    /\ calls[c].status = "returned"
    /\ Cardinality(orgs) = 2
    /\ Cardinality(JobsOfCall(c)) = 2
    /\ calls[c].from_scratch
    /\ calls[c].name = "run-2"

\* C3: when one sweep only was dispatched with run name r, the ledger never holds
\* more than N records named r, N the number of projects the organizations own;
\* each of them is saved at most once, and that save is the one that makes it
\* FINISHED; and once the sweep has returned and its jobs have ended without a
\* failure there are exactly N of them, all FINISHED, one per owned project.
C3_OneSweepAtMostNRecords ==
  \A r \in RunNames :
    LET cs == {c \in DOMAIN calls : calls[c].name = r} IN
    (Cardinality(cs) = 1 /\ cs \subseteq SweepCalls) =>
      LET c == CHOOSE x \in cs : TRUE
          recs == RecordsNamed(r)
      IN
      /\ Cardinality(recs) <= Cardinality(OwnedProjects)
      /\ \A i \in recs :
           /\ ledger[i].saves <= 1
           /\ ledger[i].status = STATUS_FINISHED <=> ledger[i].saves = 1
      /\ ( /\ calls[c].status = "returned"
           /\ \A j \in JobsOfCall(c) : jobs[j].pc = "done" ) =>
           /\ Cardinality(recs) = Cardinality(OwnedProjects)
           /\ \A p \in OwnedProjects :
                Cardinality({i \in recs : ledger[i].project = p}) = 1
           /\ \A i \in recs : ledger[i].status = STATUS_FINISHED /\ ledger[i].saves = 1

C3_Witness ==
  \E c \in SweepCalls :
    /\ Cardinality({d \in DOMAIN calls : calls[d].name = calls[c].name}) = 1
    /\ calls[c].redis
    /\ calls[c].status = "returned"
    /\ Cardinality(JobsOfCall(c)) = 2
    /\ \A j \in JobsOfCall(c) : jobs[j].pc = "done"
    /\ Cardinality(OwnedProjects) = 2
    /\ \A o \in orgs : \E p \in Projects : projOrg[p] = o
    /\ Cardinality(RecordsNamed(calls[c].name)) = 2
    /\ ledger[1].creator > ledger[2].creator

\* C4: a recompute worker that has completed has created one record for each
\* project of its organization and none for any other project, each with the
\* run name, FINISHED, and with total_project_tasks the project's task count;
\* when nothing else wrote to the ledger, these records are the whole ledger.
C4_RecomputeLeavesOneFinishedRecordPerProject ==
  \A j \in RecomputeJobs :
    jobs[j].pc = "done" =>
      /\ \A p \in Projects :
           Cardinality({i \in RecordsBy(j) : ledger[i].project = p})
             = IF projOrg[p] = jobs[j].arg THEN 1 ELSE 0
      /\ \A i \in RecordsBy(j) :
           /\ ledger[i].name = jobs[j].migration_name
           /\ ledger[i].status = STATUS_FINISHED
           /\ MetaKeys(ledger[i].meta) = {"tasks_processed", "total_project_tasks"}
           /\ MetaGet(ledger[i].meta, "total_project_tasks") = TasksCount(ledger[i].project)
      /\ RecordsBy(j) = DOMAIN ledger =>
           /\ Len(ledger) = Cardinality({p \in Projects : projOrg[p] = jobs[j].arg})
           /\ \A p \in Projects :
                Cardinality({i \in RecordsNamed(jobs[j].migration_name) :
                               ledger[i].project = p})
                  = IF projOrg[p] = jobs[j].arg THEN 1 ELSE 0

\* the scenario of the claim: one project with every task, one with none, and a
\* project of another organization
C4_Witness ==
  \E j \in RecomputeJobs :
    /\ jobs[j].pc = "done"
    /\ ~jobs[j].from_scratch
    /\ RecordsBy(j) = DOMAIN ledger
    /\ Len(ledger) = 2
    /\ \E a, b \in DOMAIN ledger :
         /\ MetaGet(ledger[a].meta, "total_project_tasks") = NumTasks
         /\ MetaGet(ledger[b].meta, "total_project_tasks") = 0
         /\ ledger[a].status = STATUS_FINISHED
         /\ ledger[b].status = STATUS_FINISHED

\* C5: in every FINISHED record the recompute worker wrote, tasks_processed is
\* at most total_project_tasks.
C5_ProcessedAtMostTotal ==
  \A i \in DOMAIN ledger :
    (ledger[i].status = STATUS_FINISHED /\ ledger[i].creator \in RecomputeJobs) =>
      MetaGet(ledger[i].meta, "tasks_processed")
        <= MetaGet(ledger[i].meta, "total_project_tasks")

C5_Witness ==
  \E i, k \in DOMAIN ledger :
    /\ ledger[i].status = STATUS_FINISHED
    /\ ledger[k].status = STATUS_FINISHED
    /\ MetaGet(ledger[i].meta, "tasks_processed") = 1
    /\ MetaGet(ledger[i].meta, "total_project_tasks") = 2
    /\ MetaGet(ledger[k].meta, "tasks_processed") = 2
    /\ MetaGet(ledger[k].meta, "total_project_tasks") = 2

PredictionJobs == {j \in DOMAIN jobs : jobs[j].func = "_fill_predictions_project"}

RecordWellFormed(rec) ==
  /\ rec.status \in {STATUS_STARTED, STATUS_FINISHED}
  /\ rec.status = STATUS_STARTED => rec.meta = {} /\ rec.saves = 0
  /\ rec.status = STATUS_FINISHED => rec.meta # {} /\ rec.saves = 1

RecordStep(old, new) ==
  \/ new = old
  \/ /\ old.status = STATUS_STARTED
     /\ old.meta = {}
     /\ new.status = STATUS_FINISHED
     /\ new.meta # {}
     /\ new.project = old.project
     /\ new.name = old.name
     /\ new.creator = old.creator

LedgerStep ==
  /\ Len(ledger') >= Len(ledger)
  /\ \A i \in DOMAIN ledger :
       /\ RecordStep(ledger[i], ledger'[i])
       /\ ledger[i].status = STATUS_FINISHED => ledger'[i] = ledger[i]
  /\ \A i \in DOMAIN ledger' \ DOMAIN ledger :
       ledger'[i].status = STATUS_STARTED /\ ledger'[i].meta = {}

\* C2: every record of the ledger, whether the recompute worker or the prediction
\* backfill wrote it, is created STARTED with no meta, has no meta while it is
\* STARTED, changes at most once, from STARTED to FINISHED with its meta filled
\* in by that same write, and is never written again, nor set back to STARTED,
\* once it is FINISHED.
C2_RecordLifecycle ==
  /\ [](\A i \in DOMAIN ledger : RecordWellFormed(ledger[i]))
  /\ [][LedgerStep]_vars

C2_Witness ==
  \E a, b, c \in DOMAIN ledger :
    /\ ledger[a].creator \in RecomputeJobs
    /\ ledger[a].status = STATUS_FINISHED
    /\ ledger[b].creator \in PredictionJobs
    /\ ledger[b].status = STATUS_FINISHED
    /\ ledger[c].status = STATUS_STARTED
    /\ a < c
    /\ b < c

AnnCalls == {c \in DOMAIN calls : calls[c].op = "fill_annotations_project"}
PredCalls == {c \in DOMAIN calls : calls[c].op = "fill_predictions_project"}

\* the run of call c is over: the dispatcher has returned and its jobs are done
RunComplete(c) ==
  /\ calls[c].status = "returned"
  /\ \A j \in JobsOfCall(c) : jobs[j].pc = "done"

Consistent(rowTask, rowProject, r) == rowProject[r] = taskProject[rowTask[r]]

NoDrift(rowTask, rowProject) == \A r \in Rows : Consistent(rowTask, rowProject, r)

Database == <<orgs, projOrg, updatedAt, taskProject, annTask, annProject,
              predTask, predProject, ledger>>

\* C6: once a first run of fill_annotations_project is over, a second run of it
\* changes nothing in the database: the state after the second run is the state
\* after the first.
C6_AnnotationBackfillIdempotent ==
  [][ ( /\ calls # <<>>
        /\ AnnCalls = DOMAIN calls
        /\ RunComplete(1) ) => Database' = Database ]_vars

C6_Witness ==
  /\ Len(calls) = 2
  /\ AnnCalls = {1, 2}
  /\ calls[1].redis
  /\ RunComplete(1)
  /\ RunComplete(2)
  /\ Cardinality(JobsOfCall(2)) = NumProjects
  /\ \E a \in Rows : annProject0[a] # annProject[a]
  /\ \E a \in Rows : annProject0[a] # NoProject /\ ~Consistent(annTask, annProject, a)

\* C7 as the claim has it: with no drifted row, every FINISHED record of the
\* prediction backfill has predictions_processed = 0.
C7_Original_ProcessedIsZero ==
  NoDrift(predTask, predProject0) =>
    \A i \in DOMAIN ledger :
      (ledger[i].creator \in PredictionJobs /\ ledger[i].status = STATUS_FINISHED) =>
        MetaGet(ledger[i].meta, "predictions_processed") = 0

\* C7 amended: with no drifted row a run of either backfill changes no project
\* reference, and every FINISHED record of the prediction backfill has as
\* predictions_processed the number of predictions whose task is in the
\* project, which is also its total_project_predictions.
C7_NoDriftNoChange ==
  /\ [][NoDrift(annTask, annProject) => annProject' = annProject]_vars
  /\ [][NoDrift(predTask, predProject) => predProject' = predProject]_vars
  /\ [](NoDrift(predTask, predProject0) =>
         \A i \in DOMAIN ledger :
           (ledger[i].creator \in PredictionJobs /\ ledger[i].status = STATUS_FINISHED) =>
             /\ MetaGet(ledger[i].meta, "predictions_processed")
                  = Cardinality(PredictionsOfProject(ledger[i].project))
             /\ MetaGet(ledger[i].meta, "predictions_processed")
                  = MetaGet(ledger[i].meta, "total_project_predictions"))

C7_Witness ==
  /\ NoDrift(predTask, predProject0)
  /\ NoDrift(annTask, annProject0)
  /\ \E c \in AnnCalls : RunComplete(c)
  /\ \E c \in PredCalls : RunComplete(c)
  /\ \E i \in DOMAIN ledger :
       /\ ledger[i].status = STATUS_FINISHED
       /\ MetaGet(ledger[i].meta, "predictions_processed") = NumRows

\* C8: once a run of a backfill over all projects is over, every row of its
\* table whose task belongs to a project carries that project as its reference.
C8_BackfillConverges ==
  /\ (\E c \in AnnCalls : RunComplete(c)) =>
       \A a \in Rows : taskProject[annTask[a]] # NoProject =>
                         Consistent(annTask, annProject, a)
  /\ (\E c \in PredCalls : RunComplete(c)) =>
       \A r \in Rows : taskProject[predTask[r]] # NoProject =>
                         Consistent(predTask, predProject, r)

C8_Witness ==
  /\ \E c \in AnnCalls : RunComplete(c) /\ calls[c].redis
  /\ \E c \in PredCalls : RunComplete(c) /\ calls[c].redis
  /\ \A r \in Rows :
       /\ taskProject[predTask[r]] # NoProject
       /\ ~Consistent(predTask, predProject0, r)
       /\ predProject0[r] # NoProject
       /\ ~Consistent(annTask, annProject0, r)

ExportCalled == ex.pc # "idle"
ExportUntouched == ex.reads = 0 /\ files = ex.files0 /\ ledger = <<>>

\* the format the caller gave, before and after the call normalizes it, names a
\* format of the project's catalog when its upper-case form is in the catalog
GivenFormatKnown ==
  \E name \in SupportedFormats(ex.project_id) :
    /\ Len(name) = Len(ex.export_format)
    /\ \A i \in DOMAIN name : name[i] = "J" /\ ex.export_format[i] \in {"j", "J"}

\* C9: a call for an absent project ends with NotFound, and a call for a format
\* whose upper-case form is not one of the project's format names ends with
\* InvalidFormat, in both cases before any query on the tasks and before any
\* file is written, with the filesystem and the ledger as they were; and no
\* task is read and no file written before both checks have passed.
C9_ValidationBeforeSideEffects ==
  /\ (ExportCalled /\ ex.pc # "get" /\ ex.project_id \notin Projects) =>
       ex.pc = "raised" /\ ex.error = "NotFound" /\ ExportUntouched
  /\ (ex.pc \notin {"idle", "get", "validate"} /\ ex.project_id \in Projects
        /\ ~GivenFormatKnown) =>
       ex.pc = "raised" /\ ex.error = "InvalidFormat" /\ ExportUntouched
  /\ (ex.pc = "raised" /\ ex.error = "InvalidFormat") =>
       ex.project_id \in Projects /\ ~GivenFormatKnown
  /\ (ex.pc = "raised" /\ ex.error = "NotFound") => ex.project_id \notin Projects
  /\ (ExportCalled /\ ~ExportUntouched) =>
       ex.project_id \in Projects /\ GivenFormatKnown

C9_Witness ==
  /\ ex.pc = "raised"
  /\ ex.error = "InvalidFormat"
  /\ ex.export_format = <<"j", "J">>
  /\ SupportedFormats(ex.project_id) = {<<"J">>}
  /\ TasksCount(ex.project_id) = NumTasks
  /\ files = OldFile
  /\ ex.path = <<"file">>

\* C10: what export_project hands to the converter is one serialized record for
\* each task of the project, in order, none lost and none twice, whatever the
\* batch size; and while the cycle runs the records accumulated are those of
\* the tasks of the batches taken so far.
C10_EveryTaskSerializedOnce ==
  /\ ex.pc = "batch" =>
       ex.tasks = Serialize(SubSeq(ex.loaded, 1, Min(ex.ndx, Len(ex.loaded))))
  /\ ex.pc \in {"write", "returned"} =>
       /\ Len(ex.fed) = TasksCount(ex.project_id)
       /\ \A t \in Tasks :
            Cardinality({i \in DOMAIN ex.fed : ex.fed[i].id = t})
              = IF taskProject[t] = ex.project_id THEN 1 ELSE 0

C10_Witness ==
  /\ ex.pc = "returned"
  /\ batch_size = 1
  /\ TasksCount(ex.project_id) = NumTasks
  /\ Len(ex.fed) = NumTasks
  /\ ex.ndx = NumTasks

FilesAt(fs, filepath) == {f \in fs : f[1] = filepath}
FilesElsewhere(fs, filepath) == {f \in fs : f[1] # filepath}

\* the path the claim resolves: the directory joined with the suggested file
\* name when the destination is an existing directory, the destination otherwise
ResolvedPath ==
  IF ex.path \in Dirs THEN <<ex.path[1], ex.filename>> ELSE ex.path

\* C11: export_project returns the resolved path (an existing directory joined
\* with the converter's file name, any other destination exactly as given) and
\* writes the converted stream there: after the call that path holds one file,
\* the stream made of the project's records in the normalized format, whether
\* or not a file was there before, every other file is as it was, and until
\* the write no file has changed.
C11_WritesResolvedPath ==
  /\ (ExportCalled /\ ex.pc # "returned") => files = ex.files0
  /\ ex.pc = "returned" =>
       /\ ex.result = ResolvedPath
       /\ FilesAt(files, ResolvedPath) = {<<ResolvedPath, ex.stream>>}
       /\ FilesElsewhere(files, ResolvedPath) = FilesElsewhere(ex.files0, ResolvedPath)
       /\ ex.stream.project = ex.project_id
       /\ ex.stream.tasks = ex.fed
       /\ ex.stream.format \in SupportedFormats(ex.project_id)
       /\ ex.filename = ExportFilename(ex.project_id, ex.stream.format)

\* an existing file at a destination that is not a directory is replaced
C11_Witness ==
  /\ ex.pc = "returned"
  /\ ex.path = <<"file">>
  /\ ex.result = <<"file">>
  /\ FilesAt(ex.files0, ex.result) = OldFile
  /\ files # ex.files0
  /\ Cardinality(files) = 1
  /\ Len(ex.stream.tasks) = NumTasks

FailedJobs == {j \in RecomputeJobs : jobs[j].pc = "failed"}

\* C12: when update_tasks_counters has raised for a project, the record the
\* worker created for that project is STARTED with no meta and was never saved,
\* and no later step writes it: the failed job and its record stay as they are
\* for ever; and no record of the ledger ever has a status other than STARTED
\* and FINISHED.
C12_RaiseLeavesRecordStarted ==
  /\ [](\A j \in FailedJobs :
          /\ jobs[j].cur \in DOMAIN ledger
          /\ ledger[jobs[j].cur].creator = j
          /\ ledger[jobs[j].cur].project = Head(jobs[j].todo)
          /\ ledger[jobs[j].cur].status = STATUS_STARTED
          /\ ledger[jobs[j].cur].meta = {}
          /\ ledger[jobs[j].cur].saves = 0)
  /\ [](\A i \in DOMAIN ledger : ledger[i].status \in {STATUS_STARTED, STATUS_FINISHED})
  /\ [][\A j \in FailedJobs :
          /\ jobs'[j].pc = "failed"
          /\ jobs'[j].cur = jobs[j].cur
          /\ ledger'[jobs[j].cur] = ledger[jobs[j].cur]]_vars

\* a worker failed, and another worker has since created and finished a record
C12_Witness ==
  \E j \in FailedJobs : \E i \in DOMAIN ledger :
    /\ i > jobs[j].cur
    /\ ledger[i].status = STATUS_FINISHED
    /\ ledger[jobs[j].cur].status = STATUS_STARTED
    /\ jobs[j].from_scratch

\* record i goes from STARTED to FINISHED in this step
Finishes(i) ==
  /\ ledger[i].status = STATUS_STARTED
  /\ ledger'[i].status = STATUS_FINISHED

\* C13: fill_predictions_project submits one unit of work, whatever the number
\* of projects: never more than one, exactly one once it has returned, the
\* function _fill_predictions_project with the run name on the default queue.
\* That job, once done, has created one record for each project, named with the
\* run name and FINISHED; each record was STARTED with no meta until the save
\* that finished it, and that save stored as predictions_processed the number
\* of rows the update matched (the predictions whose task is in the project)
\* and as total_project_predictions the number of predictions whose project
\* reference is the project at that moment.
C13_PredictionBackfillOneJob ==
  /\ [](\A c \in PredCalls :
          /\ Cardinality(JobsOfCall(c)) <= 1
          /\ calls[c].status = "returned" => Cardinality(JobsOfCall(c)) = 1
          /\ \A j \in JobsOfCall(c) :
               /\ jobs[j].func = "_fill_predictions_project"
               /\ jobs[j].migration_name = calls[c].name
               /\ jobs[j].queue_name = "default"
               /\ jobs[j].job_timeout = DefaultTimeout)
  /\ [](\A j \in PredictionJobs :
          /\ \A i \in RecordsBy(j) :
               /\ ledger[i].name = jobs[j].migration_name
               /\ ledger[i].status = STATUS_STARTED => ledger[i].meta = {}
               /\ ledger[i].status = STATUS_FINISHED =>
                    MetaKeys(ledger[i].meta)
                      = {"predictions_processed", "total_project_predictions"}
          /\ jobs[j].pc = "done" =>
               /\ Cardinality(RecordsBy(j)) = NumProjects
               /\ \A p \in Projects :
                    Cardinality({i \in RecordsBy(j) : ledger[i].project = p}) = 1
               /\ \A i \in RecordsBy(j) : ledger[i].status = STATUS_FINISHED)
  /\ [][\A i \in DOMAIN ledger :
          (ledger[i].creator \in PredictionJobs /\ Finishes(i)) =>
            /\ MetaGet(ledger'[i].meta, "predictions_processed")
                 = Cardinality({r \in Rows : taskProject[predTask[r]] = ledger[i].project})
            /\ MetaGet(ledger'[i].meta, "total_project_predictions")
                 = Cardinality({r \in Rows : predProject'[r] = ledger[i].project})]_vars

\* a queued run on drifted references: one job, a record per project, one of
\* them with counts that differ
C13_Witness ==
  \E c \in PredCalls :
    /\ calls[c].redis
    /\ RunComplete(c)
    /\ Cardinality(JobsOfCall(c)) = 1
    /\ \A j \in JobsOfCall(c) : Cardinality(RecordsBy(j)) = NumProjects
    /\ \E i \in DOMAIN ledger :
         /\ jobs[ledger[i].creator].call = c
         /\ MetaGet(ledger[i].meta, "predictions_processed") = 1
         /\ MetaGet(ledger[i].meta, "total_project_predictions") = 2

\* the job call c submitted last
LastJobOf(c) == CHOOSE j \in JobsOfCall(c) : \A k \in JobsOfCall(c) : k <= j

\* C14 as the claim has it: in either mode of the job runner the sweep goes on
\* as soon as a unit of work is submitted; it is never waiting for a job and
\* never ended by a job's exception.
C14_Original_SweepNeverWaits ==
  \A c \in SweepCalls : calls[c].status \in {"running", "returned"}

\* C14 amended: a sweep hands its redis flag to the job runner with every unit
\* of work.  With a queue the sweep never waits: it is running or has returned
\* whatever the state of its jobs.  In the synchronous fallback each job runs on
\* the sweep's thread: while the sweep is running or has returned every job it
\* submitted is done, while it waits only the job submitted last is not done,
\* and a job that raises ends the sweep with the organizations after it never
\* submitted.
C14_SweepWaitsOnlyInline ==
  \A c \in SweepCalls :
    /\ \A j \in JobsOfCall(c) : jobs[j].inline = ~calls[c].redis
    /\ calls[c].redis => calls[c].status \in {"running", "returned"}
    /\ ~calls[c].redis =>
         /\ calls[c].status \in {"running", "returned"} =>
              \A j \in JobsOfCall(c) : jobs[j].pc = "done"
         /\ calls[c].status \in {"blocked", "raised"} =>
              /\ JobsOfCall(c) # {}
              /\ \A j \in JobsOfCall(c) \ {LastJobOf(c)} : jobs[j].pc = "done"
         /\ calls[c].status = "raised" =>
              /\ jobs[LastJobOf(c)].pc = "failed"
              /\ Cardinality(JobsOfCall(c)) + Len(calls[c].todo) = Cardinality(orgs)

\* a queued sweep that returned before its job started, then an inline sweep
\* that returned after its job
C14_Witness ==
  /\ Len(calls) = 2
  /\ SweepCalls = {1, 2}
  /\ calls[1].redis
  /\ calls[1].status = "returned"
  /\ JobsOfCall(1) # {}
  /\ \A j \in JobsOfCall(1) : jobs[j].pc = "queued"
  /\ ~calls[2].redis
  /\ calls[2].status = "returned"
  /\ JobsOfCall(2) # {}
  /\ \A j \in JobsOfCall(2) : jobs[j].pc = "done" /\ RecordsBy(j) # {}

CallsNamed(name) == {c \in DOMAIN calls : calls[c].name = name}

\* the records a completed run leaves for project p: one from the prediction
\* backfill, one from a sweep when an organization owns the project
RecordsOfRun(c, p) ==
  IF c \in PredCalls \/ projOrg[p] \in orgs THEN 1 ELSE 0

RECURSIVE SumOver(_, _)
SumOver(S, p) ==
  IF S = {} THEN 0
  ELSE LET c == CHOOSE x \in S : TRUE IN RecordsOfRun(c, p) + SumOver(S \ {c}, p)

\* C15: the ledger only grows: no step removes a record, and no step changes a
\* record made by a run that is over, whatever later runs do; so when the k
\* runs made with a run name are all over, each project has k records with that
\* name (for a sweep, each project an organization owns), every one of them
\* saved once by the run that created it.
C15_LedgerAppendOnly ==
  /\ [][ /\ Len(ledger') >= Len(ledger)
         /\ \A i \in DOMAIN ledger :
              /\ ledger'[i].project = ledger[i].project
              /\ ledger'[i].name = ledger[i].name
              /\ ledger'[i].creator = ledger[i].creator
              /\ RunComplete(jobs[ledger[i].creator].call) => ledger'[i] = ledger[i] ]_vars
  /\ [](\A r \in RunNames :
          (\A c \in CallsNamed(r) : RunComplete(c)) =>
            /\ \A p \in Projects :
                 Cardinality({i \in RecordsNamed(r) : ledger[i].project = p})
                   = SumOver(CallsNamed(r), p)
            /\ \A i \in RecordsNamed(r) :
                 ledger[i].status = STATUS_FINISHED /\ ledger[i].saves = 1)

\* two sweeps with one run name over an organization that owns every project
C15_Witness ==
  /\ Len(calls) = 2
  /\ SweepCalls = {1, 2}
  /\ calls[1].name = calls[2].name
  /\ RunComplete(1)
  /\ RunComplete(2)
  /\ Len(ledger) = 2 * NumProjects
  /\ \A p \in Projects :
       Cardinality({i \in DOMAIN ledger : ledger[i].project = p}) = 2

AnnotationJobs == {j \in DOMAIN jobs : jobs[j].func = "_fill_annotations_project"}

\* a step of the annotation backfill: its dispatcher is called, submits or
\* returns, or one of its jobs runs
AnnotationStep ==
  \/ /\ calls' # calls
     /\ Last(calls').op = "fill_annotations_project"
  \/ \E j \in AnnotationJobs : jobs'[j] # jobs[j]

\* C16: fill_annotations_project submits one job for each project: at every
\* moment the jobs of a call are for different projects, each the function
\* _fill_annotations_project with the project's id alone, on the default queue
\* with the default timeout, and a call that has returned has submitted one for
\* every project.  No step of the dispatcher or of its jobs touches the ledger
\* or the predictions, no record of the ledger was created by one of its jobs,
\* and a step of a job changes only annotations whose task is in the job's
\* project, setting their project reference to it.
C16_AnnotationBackfillPerProject ==
  /\ [](\A c \in AnnCalls :
          /\ \A j \in JobsOfCall(c) :
               /\ jobs[j].func = "_fill_annotations_project"
               /\ jobs[j].arg \in Projects
               /\ jobs[j].migration_name = ""
               /\ ~jobs[j].from_scratch
               /\ jobs[j].queue_name = "default"
               /\ jobs[j].job_timeout = DefaultTimeout
               /\ \A k \in JobsOfCall(c) : jobs[k].arg = jobs[j].arg => k = j
          /\ calls[c].status = "returned" =>
               {jobs[j].arg : j \in JobsOfCall(c)} = Projects)
  /\ [](\A i \in DOMAIN ledger : ledger[i].creator \notin AnnotationJobs)
  /\ [][AnnotationStep =>
          /\ ledger' = ledger
          /\ predProject' = predProject
          /\ \A a \in Rows : annProject'[a] # annProject[a] =>
               \E j \in AnnotationJobs :
                 /\ jobs'[j] # jobs[j]
                 /\ taskProject[annTask[a]] = jobs[j].arg
                 /\ annProject'[a] = jobs[j].arg]_vars

\* the ledger holds the records of a prediction backfill when the annotation
\* backfill runs, job by job, and rewrites drifted references
C16_Witness ==
  /\ Len(calls) = 2
  /\ PredCalls = {1}
  /\ AnnCalls = {2}
  /\ RunComplete(1)
  /\ RunComplete(2)
  /\ calls[2].redis
  /\ Len(ledger) = NumProjects
  /\ Cardinality(JobsOfCall(2)) = NumProjects
  /\ \A a \in Rows : annProject[a] # annProject0[a]

\* the records job j created, in creation order
RECURSIVE SeqOfRecords(_)
SeqOfRecords(S) ==
  IF S = {} THEN <<>>
  ELSE LET i == CHOOSE x \in S : \A y \in S : x <= y
       IN <<ledger[i]>> \o SeqOfRecords(S \ {i})

\* C17: a recompute worker takes its projects one after another: the records of
\* one execution are those of the first projects of its organization in
\* descending updated_at order, one each; all of them but the last are
\* FINISHED, so at most one is STARTED, and it is the one of the project the
\* worker is on; and a new record is created only when every record the
\* execution created before is FINISHED.
C17_WorkerIsSequential ==
  /\ [](\A j \in RecomputeJobs :
          LET recs == SeqOfRecords(RecordsBy(j))
              order == ProjectsOfOrg(jobs[j].arg)
          IN /\ Len(recs) <= Len(order)
             /\ \A k \in DOMAIN recs : recs[k].project = order[k]
             /\ \A k \in DOMAIN recs : k < Len(recs) => recs[k].status = STATUS_FINISHED
             /\ Cardinality({i \in RecordsBy(j) : ledger[i].status = STATUS_STARTED}) <= 1
             /\ \A i \in RecordsBy(j) : ledger[i].status = STATUS_STARTED =>
                  /\ jobs[j].cur = i
                  /\ jobs[j].pc \in {"recompute", "finish", "failed"})
  /\ [][\A i \in DOMAIN ledger' \ DOMAIN ledger :
          \A k \in RecordsBy(ledger'[i].creator) :
            ledger[k].status = STATUS_FINISHED]_vars

\* a worker on the second project of its organization: the record of the first
\* is FINISHED, the record of the second STARTED
C17_Witness ==
  \E j \in RecomputeJobs :
    /\ jobs[j].pc = "recompute"
    /\ Cardinality(RecordsBy(j)) = 2
    /\ \E a, b \in RecordsBy(j) :
         /\ a < b
         /\ ledger[a].status = STATUS_FINISHED
         /\ ledger[b].status = STATUS_STARTED
         /\ updatedAt[ledger[a].project] > updatedAt[ledger[b].project]
         /\ ledger[a].project < ledger[b].project

\* the jobs that hold a record they are to save
HoldingJobs == {j \in DOMAIN jobs : jobs[j].cur # 0}

\* C18: whatever the interleaving of the jobs (workers of different
\* organizations, repeated runs, the prediction backfill), a record is written
\* by one execution only: the record an execution holds is one it created, no
\* two executions hold the same record, and a step that creates or changes a
\* record is a step of the record's creator, which alone moves in that step.
C18_OneWriterPerRecord ==
  /\ [](\A j \in HoldingJobs :
          /\ jobs[j].cur \in DOMAIN ledger
          /\ ledger[jobs[j].cur].creator = j
          /\ \A k \in HoldingJobs : jobs[k].cur = jobs[j].cur => k = j)
  /\ [](\A i \in DOMAIN ledger : ledger[i].creator \in DOMAIN jobs /\ ledger[i].saves <= 1)
  /\ [][\A i \in DOMAIN ledger' :
          (i \notin DOMAIN ledger \/ ledger'[i] # ledger[i]) =>
            /\ jobs'[ledger'[i].creator] # jobs[ledger'[i].creator]
            /\ \A k \in DOMAIN jobs : k # ledger'[i].creator => jobs'[k] = jobs[k]
            /\ i \in DOMAIN ledger => jobs[ledger[i].creator].cur = i]_vars

\* two runs with one run name are on the same project at the same time, each
\* with a STARTED record of its own
C18_Witness ==
  \E j, k \in RecomputeJobs :
    /\ j # k
    /\ jobs[j].pc = "finish"
    /\ jobs[k].pc = "finish"
    /\ jobs[j].cur # jobs[k].cur
    /\ jobs[j].migration_name = jobs[k].migration_name
    /\ Head(jobs[j].todo) = Head(jobs[k].todo)
    /\ ledger[jobs[j].cur].status = STATUS_STARTED
    /\ ledger[jobs[k].cur].status = STATUS_STARTED

\* the position in the worker's order of the project job j is on
Position(j) == Len(ProjectsOfOrg(jobs[j].arg)) - Len(jobs[j].todo) + 1

\* C19: when update_tasks_counters raises for the k-th project of a worker's
\* order (descending updated_at), the worker ends there: it has created k
\* records, those of the first k projects in that order, the first k - 1
\* FINISHED and saved once and the k-th STARTED, none for a project after the
\* k-th; from then on the execution takes no step, so it creates no record and
\* recomputes no project; and a worker leaves the recomputation of a project
\* only to finish the record of that project or by ending there, never for
\* another project.
C19_RaiseStopsWorker ==
  /\ [](\A j \in FailedJobs :
          LET recs == SeqOfRecords(RecordsBy(j))
              order == ProjectsOfOrg(jobs[j].arg)
              k == Position(j)
          IN /\ k \in DOMAIN order
             /\ order[k] = Head(jobs[j].todo)
             /\ Len(recs) = k
             /\ \A n \in 1..k : recs[n].project = order[n]
             /\ \A n \in 1..(k - 1) : recs[n].status = STATUS_FINISHED /\ recs[n].saves = 1
             /\ recs[k].status = STATUS_STARTED
             /\ \A n \in (k + 1)..Len(order) :
                  \A i \in RecordsBy(j) : ledger[i].project # order[n])
  /\ [][\A j \in FailedJobs :
          /\ jobs'[j] = jobs[j]
          /\ {i \in DOMAIN ledger' : ledger'[i].creator = j} = RecordsBy(j)]_vars
  /\ [][\A j \in RecomputeJobs :
          jobs[j].pc = "recompute" =>
            /\ jobs'[j].todo = jobs[j].todo
            /\ jobs'[j].pc \in {"recompute", "finish", "failed"}]_vars

\* the recomputation raised for the first of two projects; the other worker
\* has gone on since
C19_Witness ==
  \E j \in FailedJobs :
    /\ Position(j) = 1
    /\ Len(jobs[j].todo) = 2
    /\ Cardinality(RecordsBy(j)) = 1
    /\ Len(jobs) = 2
    /\ ~jobs[j].inline
    /\ \E k \in RecomputeJobs : k > j /\ jobs[k].pc = "done"

\* the predictions that reference project p while their task is not in it
StrayPredictions(p) ==
  {r \in Rows : predProject[r] = p /\ taskProject[predTask[r]] # p}

\* C20: in every FINISHED record of the prediction backfill
\* predictions_processed is at most total_project_predictions, and at the save
\* that finishes the record the total exceeds the processed count by exactly
\* the number of predictions that reference the project while their task
\* belongs to another project or to none.
C20_PredictionsProcessedAtMostTotal ==
  /\ [](\A i \in DOMAIN ledger :
          (ledger[i].creator \in PredictionJobs /\ ledger[i].status = STATUS_FINISHED) =>
            MetaGet(ledger[i].meta, "predictions_processed")
              <= MetaGet(ledger[i].meta, "total_project_predictions"))
  /\ [][\A i \in DOMAIN ledger :
          (ledger[i].creator \in PredictionJobs /\ Finishes(i)) =>
            MetaGet(ledger'[i].meta, "total_project_predictions")
              - MetaGet(ledger'[i].meta, "predictions_processed")
              = Cardinality(StrayPredictions(ledger[i].project))]_vars

\* one run, so no concurrent writer: a project with one prediction of its own
\* and one stray reference, and a project with a prediction and no stray one
C20_Witness ==
  /\ Cardinality(PredictionJobs) = 1
  /\ AnnCalls = {}
  /\ \E i, k \in DOMAIN ledger :
       /\ ledger[i].status = STATUS_FINISHED
       /\ ledger[k].status = STATUS_FINISHED
       /\ MetaGet(ledger[i].meta, "predictions_processed") = 1
       /\ MetaGet(ledger[i].meta, "total_project_predictions") = 2
       /\ MetaGet(ledger[k].meta, "predictions_processed") = 1
       /\ MetaGet(ledger[k].meta, "total_project_predictions") = 1

====
